---------------------------- MODULE Spec2Model ----------------------------
(***************************************************************************)
(* Model of tools/dev-scripts/cmd-migrate-n8n-sqlite-to-postgres.py: the   *)
(* N8NMigrator driver (connect, migrate_all, migrate_table,                *)
(* verify_migration, main) and the column-name lookup (map_column_name     *)
(* over COLUMN_MAPPINGS).                                                  *)
(*                                                                         *)
(* A column name is a record [base, caps]: `base` is the name in lower     *)
(* case and `caps` the set of 1-based positions that are upper case, so    *)
(* "createdAt" is Nm("createdat", {8}).  str.lower() clears `caps`.        *)
(*                                                                         *)
(* The destination is PostgreSQL behind one psycopg2 connection with       *)
(* autocommit off: `dest` holds the committed rows, `pending` the rows     *)
(* written by the open transaction; rollback() drops `pending`, commit()   *)
(* moves it into `dest`.  A table's content is a bag of row ids.           *)
(***************************************************************************)
EXTENDS Integers, Sequences, FiniteSets, TLC

\* ------------------------------------------------------------------ bounds
MaxRows == 2        \* source rows per data-carrying table: 0..MaxRows
MaxPre == 1         \* rows 1..MaxPre may already be in the destination
MaxLeadCaps == 1    \* leading positions of a column name that may be upper case

\* ------------------------------------------------------------- column names
Nm(b, c) == [base |-> b, caps |-> c]

\* str.lower()
Lower(n) == [n EXCEPT !.caps = {}]

IsName(n) == DOMAIN n = {"base", "caps"}

\* dict.get(key, default)
Get(d, key, default) == IF key \in DOMAIN d THEN d[key] ELSE default

MIGRATION_ORDER ==
    << "migrations", "settings", "role",
       "scope", "role_scope", "user",
       "auth_identity", "auth_provider_sync_history", "user_api_keys",
       "project", "project_relation", "folder",
       "tag_entity", "annotation_tag_entity", "folder_tag",
       "credentials_entity", "shared_credentials", "workflow_entity",
       "shared_workflow", "workflow_history", "workflow_statistics",
       "workflows_tags", "workflow_dependency", "webhook_entity",
       "execution_entity", "execution_data", "execution_metadata",
       "execution_annotations", "execution_annotation_tags", "variables",
       "processed_data", "data_table", "data_table_column",
       "test_run", "test_case_execution", "installed_packages",
       "installed_nodes", "event_destinations", "insights_metadata",
       "insights_raw", "insights_by_period", "chat_hub_sessions",
       "chat_hub_messages", "invalid_auth_token" >>

COLUMN_MAPPINGS ==
    ("installed_packages" :>
        ((Nm("packagename", {}) :> Nm("packagename", {8})) @@
         (Nm("installedversion", {}) :> Nm("installedversion", {10})) @@
         (Nm("authorname", {}) :> Nm("authorname", {7})) @@
         (Nm("authoremail", {}) :> Nm("authoremail", {7})))) @@
    ("installed_nodes" :>
        ((Nm("latestversion", {}) :> Nm("latestversion", {7})))) @@
    ("auth_identity" :>
        ((Nm("userid", {}) :> Nm("userid", {5})) @@
         (Nm("providerid", {}) :> Nm("providerid", {9})) @@
         (Nm("providertype", {}) :> Nm("providertype", {9})) @@
         (Nm("createdat", {}) :> Nm("createdat", {8})) @@
         (Nm("updatedat", {}) :> Nm("updatedat", {8})))) @@
    ("auth_provider_sync_history" :>
        ((Nm("providertype", {}) :> Nm("providertype", {9})))) @@
    ("tag_entity" :>
        ((Nm("createdat", {}) :> Nm("createdat", {8})) @@
         (Nm("updatedat", {}) :> Nm("updatedat", {8})))) @@
    ("workflows_tags" :>
        ((Nm("workflowid", {}) :> Nm("workflowid", {9})) @@
         (Nm("tagid", {}) :> Nm("tagid", {4})))) @@
    ("workflow_statistics" :>
        ((Nm("workflowid", {}) :> Nm("workflowid", {9})) @@
         (Nm("latestevent", {7}) :> Nm("latestevent", {7})) @@
         (Nm("rootcount", {}) :> Nm("rootcount", {5})))) @@
    ("webhook_entity" :>
        ((Nm("workflowid", {}) :> Nm("workflowid", {9})) @@
         (Nm("webhookpath", {}) :> Nm("webhookpath", {8})) @@
         (Nm("webhookid", {}) :> Nm("webhookid", {8})) @@
         (Nm("pathlength", {}) :> Nm("pathlength", {5})))) @@
    ("execution_data" :>
        ((Nm("workflowdata", {}) :> Nm("workflowdata", {9})))) @@
    ("workflow_history" :>
        ((Nm("versionid", {}) :> Nm("versionid", {8})) @@
         (Nm("workflowid", {}) :> Nm("workflowid", {9})) @@
         (Nm("createdat", {}) :> Nm("createdat", {8})) @@
         (Nm("updatedat", {}) :> Nm("updatedat", {8})))) @@
    ("credentials_entity" :>
        ((Nm("createdat", {}) :> Nm("createdat", {8})) @@
         (Nm("updatedat", {}) :> Nm("updatedat", {8})))) @@
    ("shared_credentials" :>
        ((Nm("credentialsid", {}) :> Nm("credentialsid", {12})) @@
         (Nm("projectid", {}) :> Nm("projectid", {8})))) @@
    ("shared_workflow" :>
        ((Nm("workflowid", {}) :> Nm("workflowid", {9})) @@
         (Nm("projectid", {}) :> Nm("projectid", {8})))) @@
    ("execution_metadata" :>
        ((Nm("executionid", {}) :> Nm("executionid", {10})))) @@
    ("invalid_auth_token" :>
        (<< >>)) @@
    ("execution_annotations" :>
        ((Nm("executionid", {}) :> Nm("executionid", {10})))) @@
    ("annotation_tag_entity" :>
        ((Nm("createdat", {}) :> Nm("createdat", {8})) @@
         (Nm("updatedat", {}) :> Nm("updatedat", {8})))) @@
    ("execution_annotation_tags" :>
        ((Nm("annotationid", {}) :> Nm("annotationid", {11})) @@
         (Nm("tagid", {}) :> Nm("tagid", {4})))) @@
    ("execution_entity" :>
        ((Nm("workflowid", {}) :> Nm("workflowid", {9})) @@
         (Nm("retryof", {}) :> Nm("retryof", {6})) @@
         (Nm("retrysuccessid", {}) :> Nm("retrysuccessid", {6, 13})) @@
         (Nm("startedat", {}) :> Nm("startedat", {8})) @@
         (Nm("stoppedat", {}) :> Nm("stoppedat", {8})) @@
         (Nm("waittill", {5}) :> Nm("waittill", {5})) @@
         (Nm("workflowdata", {}) :> Nm("workflowdata", {9})) @@
         (Nm("customdata", {}) :> Nm("customdata", {7})))) @@
    ("processed_data" :>
        ((Nm("workflowid", {}) :> Nm("workflowid", {9})))) @@
    ("folder" :>
        ((Nm("parentfolderid", {}) :> Nm("parentfolderid", {7, 13})) @@
         (Nm("projectid", {}) :> Nm("projectid", {8})) @@
         (Nm("createdat", {}) :> Nm("createdat", {8})) @@
         (Nm("updatedat", {}) :> Nm("updatedat", {8})))) @@
    ("folder_tag" :>
        ((Nm("folderid", {}) :> Nm("folderid", {7})) @@
         (Nm("tagid", {}) :> Nm("tagid", {4})))) @@
    ("workflow_entity" :>
        ((Nm("createdat", {}) :> Nm("createdat", {8})) @@
         (Nm("updatedat", {}) :> Nm("updatedat", {8})) @@
         (Nm("versionid", {}) :> Nm("versionid", {8})) @@
         (Nm("triggercount", {}) :> Nm("triggercount", {8})) @@
         (Nm("parentfolderid", {}) :> Nm("parentfolderid", {7, 13})) @@
         (Nm("pindata", {}) :> Nm("pindata", {4})) @@
         (Nm("staticdata", {}) :> Nm("staticdata", {7})))) @@
    ("insights_metadata" :>
        ((Nm("metaid", {}) :> Nm("metaid", {5})) @@
         (Nm("workflowid", {}) :> Nm("workflowid", {9})) @@
         (Nm("projectid", {}) :> Nm("projectid", {8})) @@
         (Nm("workflowname", {}) :> Nm("workflowname", {9})) @@
         (Nm("projectname", {}) :> Nm("projectname", {8})))) @@
    ("test_run" :>
        ((Nm("workflowid", {}) :> Nm("workflowid", {9})) @@
         (Nm("triggercount", {}) :> Nm("triggercount", {8})) @@
         (Nm("runcreatedat", {}) :> Nm("runcreatedat", {4, 11})) @@
         (Nm("completedat", {}) :> Nm("completedat", {10})) @@
         (Nm("errorcode", {}) :> Nm("errorcode", {6})) @@
         (Nm("errordetails", {}) :> Nm("errordetails", {6})))) @@
    ("user" :>
        ((Nm("firstname", {}) :> Nm("firstname", {6})) @@
         (Nm("lastname", {}) :> Nm("lastname", {5})) @@
         (Nm("createdat", {}) :> Nm("createdat", {8})) @@
         (Nm("updatedat", {}) :> Nm("updatedat", {8})) @@
         (Nm("personalizationanswers", {}) :> Nm("personalizationanswers", {16})) @@
         (Nm("roleslug", {}) :> Nm("roleslug", {5})) @@
         (Nm("ispending", {}) :> Nm("ispending", {3})) @@
         (Nm("mfasecret", {}) :> Nm("mfasecret", {4})) @@
         (Nm("mfaenabled", {}) :> Nm("mfaenabled", {4})) @@
         (Nm("mfarecoverycodes", {}) :> Nm("mfarecoverycodes", {4, 12})))) @@
    ("test_case_execution" :>
        ((Nm("testrunid", {}) :> Nm("testrunid", {5, 8})) @@
         (Nm("executionid", {}) :> Nm("executionid", {10})) @@
         (Nm("errorcode", {}) :> Nm("errorcode", {6})) @@
         (Nm("errordetails", {}) :> Nm("errordetails", {6})) @@
         (Nm("runcreatedat", {}) :> Nm("runcreatedat", {4, 11})) @@
         (Nm("completedat", {}) :> Nm("completedat", {10})))) @@
    ("project_relation" :>
        ((Nm("projectid", {}) :> Nm("projectid", {8})) @@
         (Nm("userid", {}) :> Nm("userid", {5})))) @@
    ("data_table" :>
        ((Nm("projectid", {}) :> Nm("projectid", {8})) @@
         (Nm("createdat", {}) :> Nm("createdat", {8})) @@
         (Nm("updatedat", {}) :> Nm("updatedat", {8})))) @@
    ("data_table_column" :>
        ((Nm("datatableid", {}) :> Nm("datatableid", {5, 10})))) @@
    ("role_scope" :>
        ((Nm("roleslug", {}) :> Nm("roleslug", {5})) @@
         (Nm("scopeslug", {}) :> Nm("scopeslug", {6})))) @@
    ("user_api_keys" :>
        ((Nm("userid", {}) :> Nm("userid", {5})) @@
         (Nm("apikey", {}) :> Nm("apikey", {4})) @@
         (Nm("createdat", {}) :> Nm("createdat", {8})) @@
         (Nm("updatedat", {}) :> Nm("updatedat", {8})))) @@
    ("insights_raw" :>
        ((Nm("metaid", {}) :> Nm("metaid", {5})) @@
         (Nm("createdat", {}) :> Nm("createdat", {8})))) @@
    ("insights_by_period" :>
        ((Nm("metaid", {}) :> Nm("metaid", {5})) @@
         (Nm("periodunit", {}) :> Nm("periodunit", {7})) @@
         (Nm("periodfrom", {}) :> Nm("periodfrom", {7})) @@
         (Nm("periodto", {}) :> Nm("periodto", {7})))) @@
    ("chat_hub_sessions" :>
        ((Nm("ownerid", {}) :> Nm("ownerid", {6})) @@
         (Nm("credentialid", {}) :> Nm("credentialid", {11})) @@
         (Nm("workflowid", {}) :> Nm("workflowid", {9})) @@
         (Nm("createdat", {}) :> Nm("createdat", {8})) @@
         (Nm("updatedat", {}) :> Nm("updatedat", {8})))) @@
    ("workflow_dependency" :>
        ((Nm("workflowid", {}) :> Nm("workflowid", {9})) @@
         (Nm("workflowversionid", {}) :> Nm("workflowversionid", {9, 16})) @@
         (Nm("dependencytype", {}) :> Nm("dependencytype", {11})) @@
         (Nm("dependencykey", {}) :> Nm("dependencykey", {11})) @@
         (Nm("dependencyinfo", {}) :> Nm("dependencyinfo", {11})))) @@
    ("chat_hub_messages" :>
        ((Nm("sessionid", {}) :> Nm("sessionid", {8})) @@
         (Nm("previousmessageid", {}) :> Nm("previousmessageid", {9, 16})) @@
         (Nm("revisionofmessageid", {}) :> Nm("revisionofmessageid", {9, 11, 18})) @@
         (Nm("retryofmessageid", {}) :> Nm("retryofmessageid", {6, 8, 15})) @@
         (Nm("workflowid", {}) :> Nm("workflowid", {9})) @@
         (Nm("executionid", {}) :> Nm("executionid", {10})) @@
         (Nm("createdat", {}) :> Nm("createdat", {8})) @@
         (Nm("updatedat", {}) :> Nm("updatedat", {8}))))

MappedTables == DOMAIN COLUMN_MAPPINGS

Range(f) == {f[x] : x \in DOMAIN f}

TableSet == Range(MIGRATION_ORDER)

\* N8NMigrator.map_column_name, with the fallback lower-cased (mutant)
map_column_name_LowerDefault(table, sqlite_col) ==
    IF table \in MappedTables
    THEN Get(COLUMN_MAPPINGS[table], Lower(sqlite_col), Lower(sqlite_col))
    ELSE Lower(sqlite_col)

\* N8NMigrator.map_column_name
map_column_name(table, sqlite_col) ==
    IF table \in MappedTables
    THEN Get(COLUMN_MAPPINGS[table], Lower(sqlite_col), sqlite_col)
    ELSE sqlite_col

\* ------------------------------------------------------------------- state
VARIABLES
    pc,             \* position of main(): "init", "loop", "entered", "fetch",
                    \* "rows", "returned", "verify", "exited"
    run,            \* 1 for the first invocation of the script, 2 for a re-run
    i,              \* index into MIGRATION_ORDER of migrate_all's for loop
    pg_columns,     \* migrate_table: columns of the destination table
    rows,           \* migrate_table: rows fetched from the source
    j,              \* migrate_table: index of the row being processed
    inserted,       \* migrate_table: counter
    skipped,        \* migrate_table: counter
    ret,            \* value returned by migrate_table
    stats,          \* self.stats: table -> <<inserted, skipped>>
    total_inserted, \* migrate_all: grand total
    total_skipped,  \* migrate_all: grand total
    exit_code,      \* the value main() returns; -1 while it runs
    dest,           \* destination: committed rows, table -> bag of row ids
    pending,        \* destination: rows written by the open transaction
    pg_schema,      \* destination catalog: table -> set of column names
    pg_unique,      \* destination: tables that enforce a uniqueness constraint
    sqlite_tables,  \* source: the tables the SQLite file has
    sqlite_rows,    \* source: table -> sequence of row ids
    attempts,       \* history: tables migrate_table was called with, in order
    pre,            \* history: the table's committed rows when the call began
    log,            \* history: per row of this call "ok", "fail" or "nodata"
    src_queries,    \* history: statements this call ran against the source
    pg_writes,      \* history: INSERT statements this call sent
    outcome,        \* history: how the last finished call left migrate_table
    dest1,          \* history: the destination when the first run ended
    failed1,        \* history: <<table, row>> whose INSERT failed in run 1
    errored1,       \* history: tables that hit the table-level handler in run 1
    revived,        \* history: run 2 got past an error that stopped run 1
    m_pc,           \* column lookup: "input", "mapped", "remapped"
    m_table,        \* column lookup: table argument
    m_col,          \* column lookup: column argument
    m_out,          \* column lookup: map_column_name(m_table, m_col)
    m_again         \* column lookup: map_column_name(m_table, m_out)

mig_vars == << pc, run, i, pg_columns, rows, j, inserted, skipped, ret, stats,
               total_inserted, total_skipped, exit_code, dest, pending,
               pg_schema, pg_unique, sqlite_tables, sqlite_rows, attempts,
               pre, log, src_queries, pg_writes, outcome, dest1, failed1, errored1,
               revived >>

map_vars == << m_pc, m_table, m_col, m_out, m_again >>

vars == << mig_vars, map_vars >>

\* ------------------------------------------------------------- environment
RowIds == 1..MaxRows

\* the tables whose source holds rows in the runs explored
DataTables == {"chat_hub_sessions", "chat_hub_messages"}

\* the tables verify_migration counts, in the order it counts them
VerifyTables == << "workflow_entity", "credentials_entity", "execution_entity" >>

\* the data table that may come without a uniqueness constraint
LooseTables == {"chat_hub_messages"}

Id == Nm("id", {})

\* row.keys(): the columns of the source table
sqlite_columns(t) ==
    {Id} \cup (IF t \in MappedTables THEN DOMAIN COLUMN_MAPPINGS[t] ELSE {})

\* a destination table with the canonical camelCase columns
CanonicalColumns(t) ==
    {Id} \cup (IF t \in MappedTables THEN Range(COLUMN_MAPPINGS[t]) ELSE {})

\* a destination table that shares no column with the source table
ForeignColumns == {Nm("legacy_key", {})}

NoRows == [r \in RowIds |-> 0]

Empty == [t \in DataTables |-> NoRows]

\* rows 1..n of a source table
FirstRows(n) == [k \in 1..n |-> k]

\* the bag holding one copy of each row of S
BagOf(S) == [r \in RowIds |-> IF r \in S THEN 1 ELSE 0]

SourceRows(t) == IF t \in DataTables THEN sqlite_rows[t] ELSE << >>

DestRows(t) == IF t \in DataTables THEN dest[t] ELSE NoRows

\* a table that a source written by an older release does not have
MaybeMissing == {"chat_hub_messages"}

\* the sources and destinations a run may meet: the tables of `filled` may
\* hold rows in the source and come in any shape in the destination, the
\* tables of `loose` may come without a uniqueness constraint
Environment(filled, loose) ==
    \E absent \in SUBSET {VerifyTables[1]} :
    \E kind \in [DataTables -> {"absent", "foreign", "canonical"}] :
    \E gone \in SUBSET (MaybeMissing \cap filled) :
    \E n \in [DataTables -> 0..MaxRows] :
    \E h \in [DataTables -> SUBSET (1..MaxPre)] :
    \E nu \in SUBSET loose :
        /\ \A t \in DataTables \ filled :
              kind[t] = "canonical" /\ n[t] = 0 /\ h[t] = {}
        /\ \A t \in gone : n[t] = 0
        /\ \A t \in DataTables :
              kind[t] # "canonical" => (h[t] = {} /\ t \notin nu)
        /\ pg_schema = [t \in TableSet |->
                          IF t \in absent THEN {}
                          ELSE IF t \notin DataTables THEN {Id}
                          ELSE CASE kind[t] = "absent" -> {}
                                 [] kind[t] = "foreign" -> ForeignColumns
                                 [] OTHER -> CanonicalColumns(t)]
        /\ sqlite_tables = TableSet \ gone
        /\ sqlite_rows = [t \in DataTables |-> FirstRows(n[t])]
        /\ dest = [t \in DataTables |-> BagOf(h[t] \cap RowIds)]
        /\ pg_unique = DataTables \ nu

\* N8NMigrator.__init__ and the start of main()
Construct ==
    /\ pc = "init"
    /\ run = 1
    /\ i = 1
    /\ pg_columns = {}
    /\ rows = << >>
    /\ j = 0
    /\ inserted = 0
    /\ skipped = 0
    /\ ret = << 0, 0 >>
    /\ stats = << >>
    /\ total_inserted = 0
    /\ total_skipped = 0
    /\ exit_code = -1
    /\ pending = Empty
    /\ attempts = << >>
    /\ pre = NoRows
    /\ log = << >>
    /\ src_queries = 0
    /\ pg_writes = 0
    /\ outcome = "none"
    /\ dest1 = Empty
    /\ failed1 = {}
    /\ errored1 = {}
    /\ revived = FALSE

\* ------------------------------------------------------------ migrate_table
CurTable == MIGRATION_ORDER[i]

InCall == pc \in {"entered", "fetch", "rows", "returned"}

\* N8NMigrator.get_table_columns: the catalog's columns, none for no table
get_table_columns(t) == pg_schema[t]

\* the data dict built for a row: the mapped columns the destination has
RowData(t, cols) == {map_column_name(t, key) : key \in sqlite_columns(t)} \cap cols

\* connection.rollback()
Rollback == pending' = Empty

\* connection.commit()
Commit ==
    /\ dest' = [t \in DataTables |-> [r \in RowIds |-> dest[t][r] + pending[t][r]]]
    /\ pending' = Empty

\* INSERT ... of row r, without the ON CONFLICT clause taking effect (mutant)
InsertInto_Always(t, r) ==
    pending' = [pending EXCEPT ![t][r] = @ + 1]

\* INSERT ... ON CONFLICT DO NOTHING of row r into table t
InsertInto(t, r) ==
    IF t \in pg_unique /\ dest[t][r] + pending[t][r] > 0
    THEN pending' = pending
    ELSE pending' = [pending EXCEPT ![t][r] = @ + 1]

\* what run 1 records about its errors
NoteRowError(t, r) ==
    failed1' = IF run = 1 THEN failed1 \cup {<< t, r >>} ELSE failed1

NoteTableError(t) ==
    errored1' = IF run = 1 /\ t \in DataTables THEN errored1 \cup {t} ELSE errored1

\* the table-level handler, without its rollback (mutant)
HandleTableError_NoRollback ==
    /\ ret' = << 0, 0 >>
    /\ outcome' = "error"
    /\ pc' = "returned"
    /\ NoteTableError(CurTable)
    /\ UNCHANGED << pending, dest, exit_code >>

\* the table-level handler, letting the exception reach main() (mutant)
HandleTableError_Propagate ==
    /\ Rollback
    /\ ret' = ret
    /\ outcome' = "error"
    /\ exit_code' = 1
    /\ pc' = "exited"
    /\ NoteTableError(CurTable)
    /\ UNCHANGED dest

\* except Exception in migrate_table: rollback, return 0, 0
HandleTableError ==
    /\ Rollback
    /\ ret' = << 0, 0 >>
    /\ outcome' = "error"
    /\ pc' = "returned"
    /\ NoteTableError(CurTable)
    /\ UNCHANGED << dest, exit_code >>

\* migrate_table up to the catalog query
EnterTable ==
    /\ pc = "loop"
    /\ i <= Len(MIGRATION_ORDER)
    /\ pc' = "entered"
    /\ pg_columns' = get_table_columns(CurTable)
    /\ attempts' = Append(attempts, CurTable)
    /\ pre' = DestRows(CurTable)
    /\ log' = << >>
    /\ src_queries' = 0
    /\ pg_writes' = 0
    /\ UNCHANGED << map_vars, run, i, rows, j, inserted, skipped, ret, stats,
                    total_inserted, total_skipped, exit_code, dest, pending,
                    pg_schema, pg_unique, sqlite_tables, sqlite_rows, outcome, dest1,
                    failed1, errored1, revived >>

\* the absent-table check placed after the row count (mutant)
TableNotFound_AfterCount ==
    /\ pc = "entered"
    /\ pg_columns = {}
    /\ src_queries' = src_queries + 1
    /\ ret' = << 0, 0 >>
    /\ outcome' = "absent"
    /\ pc' = "returned"
    /\ UNCHANGED << map_vars, run, i, pg_columns, rows, j, inserted, skipped, stats,
                    total_inserted, total_skipped, exit_code, dest, pending,
                    pg_schema, pg_unique, sqlite_tables, sqlite_rows, attempts, pre, log,
                    pg_writes, dest1, failed1, errored1, revived >>

\* if not pg_columns: return 0, 0
TableNotFound ==
    /\ pc = "entered"
    /\ pg_columns = {}
    /\ ret' = << 0, 0 >>
    /\ outcome' = "absent"
    /\ pc' = "returned"
    /\ UNCHANGED << map_vars, run, i, pg_columns, rows, j, inserted, skipped, stats,
                    total_inserted, total_skipped, exit_code, dest, pending,
                    pg_schema, pg_unique, sqlite_tables, sqlite_rows, attempts, pre, log,
                    src_queries, pg_writes, dest1, failed1, errored1, revived >>

\* SELECT COUNT(*) raises: the source has no such table
CountFails ==
    /\ pc = "entered"
    /\ pg_columns # {}
    /\ CurTable \notin sqlite_tables
    /\ src_queries' = src_queries + 1
    /\ HandleTableError
    /\ UNCHANGED << map_vars, run, i, pg_columns, rows, j, inserted, skipped, stats,
                    total_inserted, total_skipped, pg_schema, pg_unique,
                    sqlite_tables, sqlite_rows, attempts, pre, log, pg_writes, dest1,
                    failed1, revived >>

\* SELECT COUNT(*) returns 0: return 0, 0
TableEmpty ==
    /\ pc = "entered"
    /\ pg_columns # {}
    /\ CurTable \in sqlite_tables
    /\ Len(SourceRows(CurTable)) = 0
    /\ src_queries' = src_queries + 1
    /\ ret' = << 0, 0 >>
    /\ outcome' = "empty"
    /\ pc' = "returned"
    /\ UNCHANGED << map_vars, run, i, pg_columns, rows, j, inserted, skipped, stats,
                    total_inserted, total_skipped, exit_code, dest, pending,
                    pg_schema, pg_unique, sqlite_tables, sqlite_rows, attempts, pre, log,
                    pg_writes, dest1, failed1, errored1, revived >>

\* SELECT COUNT(*) returns a positive count
CountRows ==
    /\ pc = "entered"
    /\ pg_columns # {}
    /\ CurTable \in sqlite_tables
    /\ Len(SourceRows(CurTable)) > 0
    /\ src_queries' = src_queries + 1
    /\ pc' = "fetch"
    /\ UNCHANGED << map_vars, run, i, pg_columns, rows, j, inserted, skipped, ret, stats,
                    total_inserted, total_skipped, exit_code, dest, pending,
                    pg_schema, pg_unique, sqlite_tables, sqlite_rows, attempts, pre, log,
                    pg_writes, outcome, dest1, failed1, errored1, revived >>

\* SELECT * and fetchall(); inserted = 0; skipped = 0
FetchRows ==
    /\ pc = "fetch"
    /\ src_queries' = src_queries + 1
    /\ rows' = SourceRows(CurTable)
    /\ j' = 1
    /\ inserted' = 0
    /\ skipped' = 0
    /\ pc' = "rows"
    /\ UNCHANGED << map_vars, run, i, pg_columns, ret, stats, total_inserted,
                    total_skipped, exit_code, dest, pending, pg_schema,
                    pg_unique, sqlite_tables, sqlite_rows, attempts, pre, log, pg_writes,
                    outcome, dest1, failed1, errored1, revived >>

\* if not data: skipped += 1; continue
RowWithoutData ==
    /\ pc = "rows"
    /\ j <= Len(rows)
    /\ RowData(CurTable, pg_columns) = {}
    /\ skipped' = skipped + 1
    /\ j' = j + 1
    /\ log' = Append(log, "nodata")
    /\ UNCHANGED << map_vars, pc, run, i, pg_columns, rows, inserted, ret, stats,
                    total_inserted, total_skipped, exit_code, dest, pending,
                    pg_schema, pg_unique, sqlite_tables, sqlite_rows, attempts, pre,
                    src_queries, pg_writes, outcome, dest1, failed1, errored1,
                    revived >>

\* pg_cur.execute(insert_sql, values) succeeds: inserted += 1
InsertRow ==
    /\ pc = "rows"
    /\ j <= Len(rows)
    /\ RowData(CurTable, pg_columns) # {}
    /\ pg_writes' = pg_writes + 1
    /\ InsertInto(CurTable, rows[j])
    /\ inserted' = inserted + 1
    /\ j' = j + 1
    /\ log' = Append(log, "ok")
    /\ revived' = (revived \/ (run = 2 /\ << CurTable, rows[j] >> \in failed1))
    /\ UNCHANGED << map_vars, pc, run, i, pg_columns, rows, skipped, ret, stats,
                    total_inserted, total_skipped, exit_code, dest, pg_schema,
                    pg_unique, sqlite_tables, sqlite_rows, attempts, pre, src_queries,
                    outcome, dest1, failed1, errored1 >>

\* the row handler, without its rollback (mutant)
InsertError_NoRollback ==
    /\ pc = "rows"
    /\ j <= Len(rows)
    /\ RowData(CurTable, pg_columns) # {}
    /\ pg_writes' = pg_writes + 1
    /\ skipped' = skipped + 1
    /\ pending' = pending
    /\ j' = j + 1
    /\ log' = Append(log, "fail")
    /\ NoteRowError(CurTable, rows[j])
    /\ UNCHANGED << map_vars, pc, run, i, pg_columns, rows, inserted, ret, stats,
                    total_inserted, total_skipped, exit_code, dest, pg_schema,
                    pg_unique, sqlite_tables, sqlite_rows, attempts, pre, src_queries,
                    outcome, dest1, errored1, revived >>

\* the row handler, without its skipped += 1 (mutant)
InsertError_NoCount ==
    /\ pc = "rows"
    /\ j <= Len(rows)
    /\ RowData(CurTable, pg_columns) # {}
    /\ pg_writes' = pg_writes + 1
    /\ skipped' = skipped
    /\ Rollback
    /\ j' = j + 1
    /\ log' = Append(log, "fail")
    /\ NoteRowError(CurTable, rows[j])
    /\ UNCHANGED << map_vars, pc, run, i, pg_columns, rows, inserted, ret, stats,
                    total_inserted, total_skipped, exit_code, dest, pg_schema,
                    pg_unique, sqlite_tables, sqlite_rows, attempts, pre, src_queries,
                    outcome, dest1, errored1, revived >>

\* pg_cur.execute raises: skipped += 1; rollback(); continue
InsertError ==
    /\ pc = "rows"
    /\ j <= Len(rows)
    /\ RowData(CurTable, pg_columns) # {}
    /\ pg_writes' = pg_writes + 1
    /\ skipped' = skipped + 1
    /\ Rollback
    /\ j' = j + 1
    /\ log' = Append(log, "fail")
    /\ NoteRowError(CurTable, rows[j])
    /\ UNCHANGED << map_vars, pc, run, i, pg_columns, rows, inserted, ret, stats,
                    total_inserted, total_skipped, exit_code, dest, pg_schema,
                    pg_unique, sqlite_tables, sqlite_rows, attempts, pre, src_queries,
                    outcome, dest1, errored1, revived >>

\* self.pg_conn.commit(); return inserted, skipped
CommitTable ==
    /\ pc = "rows"
    /\ j > Len(rows)
    /\ Commit
    /\ ret' = << inserted, skipped >>
    /\ outcome' = "committed"
    /\ pc' = "returned"
    /\ revived' = (revived \/ (run = 2 /\ CurTable \in errored1))
    /\ UNCHANGED << map_vars, run, i, pg_columns, rows, j, inserted, skipped, stats,
                    total_inserted, total_skipped, exit_code, pg_schema,
                    pg_unique, sqlite_tables, sqlite_rows, attempts, pre, log, src_queries,
                    pg_writes, dest1, failed1, errored1 >>

\* self.pg_conn.commit() raises
CommitFails ==
    /\ pc = "rows"
    /\ j > Len(rows)
    /\ HandleTableError
    /\ UNCHANGED << map_vars, run, i, pg_columns, rows, j, inserted, skipped, stats,
                    total_inserted, total_skipped, pg_schema, pg_unique,
                    sqlite_tables, sqlite_rows, attempts, pre, log, src_queries, pg_writes,
                    dest1, failed1, revived >>

\* -------------------------------------------------------- migrate_all, main
\* migrator.connect() succeeds; migrate_all starts its loop
Connect ==
    /\ pc = "init"
    /\ pc' = "loop"
    /\ UNCHANGED << map_vars, run, i, pg_columns, rows, j, inserted, skipped, ret, stats,
                    total_inserted, total_skipped, exit_code, dest, pending,
                    pg_schema, pg_unique, sqlite_tables, sqlite_rows, attempts, pre, log,
                    src_queries, pg_writes, outcome, dest1, failed1, errored1,
                    revived >>

\* migrator.connect() raises: main() returns 1
ConnectFails ==
    /\ pc = "init"
    /\ exit_code' = 1
    /\ pc' = "exited"
    /\ UNCHANGED << map_vars, run, i, pg_columns, rows, j, inserted, skipped, ret, stats,
                    total_inserted, total_skipped, dest, pending, pg_schema,
                    pg_unique, sqlite_tables, sqlite_rows, attempts, pre, log, src_queries,
                    pg_writes, outcome, dest1, failed1, errored1, revived >>

\* self.stats[table] = ...; total_inserted += inserted; total_skipped += skipped
Accumulate ==
    /\ pc = "returned"
    /\ stats' = (CurTable :> ret) @@ stats
    /\ total_inserted' = total_inserted + ret[1]
    /\ total_skipped' = total_skipped + ret[2]
    /\ i' = i + 1
    /\ pc' = "loop"
    /\ pg_columns' = {}
    /\ rows' = << >>
    /\ j' = 0
    /\ inserted' = 0
    /\ skipped' = 0
    /\ pre' = NoRows
    /\ log' = << >>
    /\ src_queries' = 0
    /\ pg_writes' = 0
    /\ outcome' = "none"
    /\ UNCHANGED << map_vars, run, ret, exit_code, dest, pending, pg_schema,
                    pg_unique, sqlite_tables, sqlite_rows, attempts, dest1,
                    failed1, errored1, revived >>

\* the loop is over: the summary is printed
Summary ==
    /\ pc = "loop"
    /\ i > Len(MIGRATION_ORDER)
    /\ pc' = "verify"
    /\ UNCHANGED << map_vars, run, i, pg_columns, rows, j, inserted, skipped, ret, stats,
                    total_inserted, total_skipped, exit_code, dest, pending,
                    pg_schema, pg_unique, sqlite_tables, sqlite_rows, attempts, pre, log,
                    src_queries, pg_writes, outcome, dest1, failed1, errored1,
                    revived >>

\* every SELECT COUNT(*) of verify_migration can run
VerifyReadable == \A k \in DOMAIN VerifyTables : pg_schema[VerifyTables[k]] # {}

\* verify_migration prints its three counts: main() returns 0; close()
VerifyMigration ==
    /\ pc = "verify"
    /\ VerifyReadable
    /\ exit_code' = 0
    /\ pc' = "exited"
    /\ Rollback
    /\ UNCHANGED << map_vars, run, i, pg_columns, rows, j, inserted, skipped, ret, stats,
                    total_inserted, total_skipped, dest, pg_schema, pg_unique,
                    sqlite_tables, sqlite_rows, attempts, pre, log, src_queries, pg_writes,
                    outcome, dest1, failed1, errored1, revived >>

\* a count of verify_migration raises: main() returns 1; close()
VerifyFails ==
    /\ pc = "verify"
    /\ ~VerifyReadable
    /\ exit_code' = 1
    /\ pc' = "exited"
    /\ Rollback
    /\ UNCHANGED << map_vars, run, i, pg_columns, rows, j, inserted, skipped, ret, stats,
                    total_inserted, total_skipped, dest, pg_schema, pg_unique,
                    sqlite_tables, sqlite_rows, attempts, pre, log, src_queries, pg_writes,
                    outcome, dest1, failed1, errored1, revived >>

\* the script is started again on the same source and destination
Rerun ==
    /\ pc = "exited"
    /\ run = 1
    /\ i > Len(MIGRATION_ORDER)
    /\ run' = 2
    /\ dest1' = dest
    /\ pc' = "init"
    /\ i' = 1
    /\ ret' = << 0, 0 >>
    /\ stats' = << >>
    /\ total_inserted' = 0
    /\ total_skipped' = 0
    /\ exit_code' = -1
    /\ attempts' = << >>
    /\ outcome' = "none"
    /\ UNCHANGED << map_vars, pg_columns, rows, j, inserted, skipped, dest, pending,
                    pg_schema, pg_unique, sqlite_tables, sqlite_rows, pre, log, src_queries,
                    pg_writes, failed1, errored1, revived >>

\* ------------------------------------------------------------ column lookup
MappedNames ==
    UNION {DOMAIN COLUMN_MAPPINGS[t] \cup Range(COLUMN_MAPPINGS[t]) : t \in MappedTables}

Bases == {n.base : n \in MappedNames} \cup {"id", "name"}

UsedCaps(b) == UNION {n.caps : n \in {x \in MappedNames : x.base = b}}

\* the spellings of the known column names
ColumnNames ==
    UNION {{Nm(b, c) : c \in SUBSET (UsedCaps(b) \cup (1..MaxLeadCaps))} : b \in Bases}

MapInput ==
    /\ m_pc = "input"
    /\ m_table \in TableSet \cup {"other_table"}
    /\ m_col \in ColumnNames
    /\ m_out = m_col
    /\ m_again = m_col

MapIdle ==
    /\ m_pc = "input"
    /\ m_table = MIGRATION_ORDER[1]
    /\ m_col = Id
    /\ m_out = Id
    /\ m_again = Id

\* pg_col = self.map_column_name(table_name, key)
ApplyMap ==
    /\ m_pc = "input"
    /\ m_out' = map_column_name(m_table, m_col)
    /\ m_pc' = "mapped"
    /\ UNCHANGED << m_table, m_col, m_again, mig_vars >>

\* the lookup applied to its own result
ApplyMapAgain ==
    /\ m_pc = "mapped"
    /\ m_again' = map_column_name(m_table, m_out)
    /\ m_pc' = "remapped"
    /\ UNCHANGED << m_table, m_col, m_out, mig_vars >>

\* ----------------------------------------------------------- specifications
MigrateStep ==
    \/ Connect
    \/ ConnectFails
    \/ EnterTable
    \/ TableNotFound
    \/ CountFails
    \/ TableEmpty
    \/ CountRows
    \/ FetchRows
    \/ RowWithoutData
    \/ InsertRow
    \/ InsertError
    \/ CommitTable
    \/ CommitFails
    \/ Accumulate
    \/ Summary
    \/ VerifyMigration
    \/ VerifyFails

\* one invocation of the script
Init ==
    /\ Construct
    /\ Environment(DataTables, LooseTables)
    /\ MapIdle

Next == MigrateStep

Spec == Init /\ [][Next]_vars

\* two invocations in a row, one table of the source holding rows
InitRerun ==
    /\ Construct
    /\ Environment(LooseTables, LooseTables)
    /\ MapIdle

NextRerun == MigrateStep \/ Rerun

SpecRerun == InitRerun /\ [][NextRerun]_vars

\* the column lookup on its own
InitMap ==
    /\ Construct
    /\ Environment({}, {})
    /\ VerifyReadable
    /\ MapInput

NextMap == ApplyMap \/ ApplyMapAgain

SpecMap == InitMap /\ [][NextMap]_vars

\* ------------------------------------------------------------------ claims
Returned(kind) == pc = "returned" /\ outcome = kind

\* how many rows of this call the log marks with `tag`
Count(lg, tag) == Cardinality({p \in DOMAIN lg : lg[p] = tag})

\* position of the last failing INSERT of the call, 0 when none failed
LastFail(lg) ==
    IF \E p \in DOMAIN lg : lg[p] = "fail"
    THEN CHOOSE p \in DOMAIN lg :
            lg[p] = "fail" /\ \A q \in DOMAIN lg : lg[q] = "fail" => q <= p
    ELSE 0

\* copies of row r whose INSERT succeeded after the last failing one
KeptCopies(lg, rws, r) ==
    Cardinality({p \in DOMAIN lg : p > LastFail(lg) /\ lg[p] = "ok" /\ rws[p] = r})

\* the table after the call, from what it held before and the call's log
ExpectedRows(t, before, lg, rws) ==
    [r \in RowIds |->
        IF t \in pg_unique
        THEN IF before[r] > 0 THEN before[r]
             ELSE IF KeptCopies(lg, rws, r) > 0 THEN 1 ELSE 0
        ELSE before[r] + KeptCopies(lg, rws, r)]

\* rows the table holds now that it did not hold when the call began
RowsAdded(t) ==
    Cardinality({x \in RowIds \X (1..(2 * MaxRows + MaxPre)) :
                    x[2] <= DestRows(t)[x[1]] - pre[x[1]]})

MigrateAllDone == pc \in {"verify", "exited"} /\ attempts = MIGRATION_ORDER

\* C1: when migrate_table reaches its commit, every row was attempted, each
\* failing INSERT was counted as skipped, and the table holds, beyond what it
\* held before the call, exactly the rows whose INSERT succeeded after the
\* last failing row: the rollback undid every earlier success.
C1_RollbackKeepsOnlyRowsAfterLastFailure ==
    Returned("committed") =>
        /\ Len(log) = Len(rows)
        /\ skipped = Count(log, "fail") + Count(log, "nodata")
        /\ DestRows(CurTable) = ExpectedRows(CurTable, pre, log, rows)

\* a commit after a success followed by a failure: the first row is gone
C1_Witness ==
    /\ Returned("committed")
    /\ Len(log) >= 2
    /\ log[1] = "ok"
    /\ log[2] = "fail"
    /\ pre[rows[1]] = 0
    /\ DestRows(CurTable)[rows[1]] = 0

\* C2: once migrate_all has attempted every table the run exits with code 0,
\* whatever was skipped and whatever verify_migration meets.
C2_ExitZeroAfterMigrateAll ==
    (pc = "exited" /\ attempts = MIGRATION_ORDER) => exit_code = 0

\* C3: migrate_all calls migrate_table for the tables of MIGRATION_ORDER in
\* order, once each; a table-level exception leaves (0, 0) in the stats of
\* that table and the loop goes on, so a run that started the loop ends with
\* every table attempted.
C3_EveryTableAttemptedInOrder ==
    /\ attempts = SubSeq(MIGRATION_ORDER, 1, Len(attempts))
    /\ pc = "loop" =>
          /\ Len(attempts) = i - 1
          /\ DOMAIN stats = {MIGRATION_ORDER[k] : k \in 1..(i - 1)}
    /\ InCall => Len(attempts) = i
    /\ Returned("error") => ret = << 0, 0 >>
    /\ (pc = "loop" /\ i > 1) => stats[MIGRATION_ORDER[i - 1]] = ret
    /\ (pc \in {"verify", "exited"} /\ attempts # << >>) =>
          /\ attempts = MIGRATION_ORDER
          /\ DOMAIN stats = TableSet

\* the loop is over, all tables were attempted, one of them had raised
C3_Witness ==
    /\ pc = "verify"
    /\ errored1 # {}
    /\ attempts = MIGRATION_ORDER
    /\ \A t \in errored1 : stats[t] = << 0, 0 >>

\* C4: a table the destination lacks returns (0, 0) through the absent-table
\* branch, not the exception handler, with no statement run against the
\* source, no INSERT sent and nothing pending or changed in the destination.
C4_AbsentTableReturnsAtOnce ==
    /\ InCall => pg_columns = pg_schema[CurTable]
    /\ (InCall /\ pg_schema[CurTable] = {}) => pc \in {"entered", "returned"}
    /\ (pc = "returned" /\ pg_schema[CurTable] = {}) =>
          /\ ret = << 0, 0 >>
          /\ outcome = "absent"
          /\ src_queries = 0
          /\ pg_writes = 0
          /\ pending = Empty
          /\ DestRows(CurTable) = pre

\* an absent table whose source table holds rows has returned
C4_Witness ==
    /\ pc = "returned"
    /\ pg_schema[CurTable] = {}
    /\ Len(SourceRows(CurTable)) > 0

\* C5: at the commit every fetched row was counted once: inserted counts the
\* INSERTs that succeeded, skipped the rows with no data and the INSERTs that
\* failed, rows with no data were never sent, and the two counts returned
\* add up to the number of rows fetched.
C5_EveryRowCountedOnce ==
    Returned("committed") =>
        /\ ret[1] = Count(log, "ok")
        /\ ret[2] = Count(log, "fail") + Count(log, "nodata")
        /\ pg_writes = Count(log, "ok") + Count(log, "fail")
        /\ ret[1] + ret[2] = Len(rows)

\* a commit after both a successful and a failing INSERT
C5_Witness ==
    /\ Returned("committed")
    /\ Count(log, "ok") > 0
    /\ Count(log, "fail") > 0

\* C6 as stated: after a re-run every table with a uniqueness constraint
\* holds what it held after the first run.
C6_RerunLeavesUniqueTablesAlone ==
    (run = 2 /\ MigrateAllDone) => \A t \in pg_unique : dest[t] = dest1[t]

\* C6 amended: throughout a re-run in which no INSERT that failed in the
\* first run succeeds and no table that raised in the first run is committed,
\* every table with a uniqueness constraint holds what it held after the
\* first run, and the re-run attempts every table (nothing escapes the loop).
C6_RerunWithSameErrorsLeavesUniqueTablesAlone ==
    (run = 2 /\ ~revived) =>
        /\ \A t \in pg_unique : dest[t] = dest1[t]
        /\ (pc \in {"verify", "exited"} /\ attempts # << >>) =>
              attempts = MIGRATION_ORDER

\* a finished re-run that sent INSERTs for rows the first run had stored
C6_Witness ==
    /\ run = 2
    /\ MigrateAllDone
    /\ ~revived
    /\ \E t \in pg_unique : dest1[t] # NoRows /\ stats[t][1] > 0

\* C7: between two calls of migrate_table, and after the loop, no destination
\* write is pending, whichever way the call was left; and no step of a call
\* changes the committed rows of another table.
C7_RollbackConfinedToItsTable ==
    /\ [](pc \in {"loop", "returned", "verify", "exited"} => pending = Empty)
    /\ [][InCall => \A u \in DataTables \ {CurTable} : dest'[u] = dest[u]]_vars

\* a later table rolled back while an earlier table's rows stay committed
C7_Witness ==
    /\ pc = "returned"
    /\ Count(log, "fail") > 0
    /\ \E u \in DataTables \ {CurTable} :
          /\ u \in DOMAIN stats
          /\ stats[u][1] > 0
          /\ dest[u] # NoRows

\* C8: the lookup returns a name for every table and column; when the
\* lower-cased column has no entry in the table's map (or the table has no
\* map) the name comes back unchanged; looking the result up again gives the
\* same name.
C8_MapTotalAndIdempotent ==
    /\ m_pc # "input" =>
          /\ IsName(m_out)
          /\ (m_table \notin MappedTables
                \/ Lower(m_col) \notin DOMAIN COLUMN_MAPPINGS[m_table])
                => m_out = m_col
    /\ m_pc = "remapped" => m_again = m_out

\* a renamed column looked up again
C8_Witness ==
    /\ m_pc = "remapped"
    /\ m_out # m_col
    /\ m_again = m_out

\* C9: the inserted count migrate_table returns is the number of rows the
\* call added to the destination table.
C9_InsertedCountsRowsAdded ==
    Returned("committed") => ret[1] = RowsAdded(CurTable)

\* C10: every entry k -> v of a table's map answers every spelling of k.
C10_EveryEntryEffective ==
    (m_pc # "input" /\ m_table \in MappedTables) =>
        \A k \in DOMAIN COLUMN_MAPPINGS[m_table] :
            Lower(m_col) = Lower(k) => m_out = COLUMN_MAPPINGS[m_table][k]

=============================================================================
